---- MODULE Spec2Model ----
(***************************************************************************)
(* Model of the AD5628 (DAC) and AD7193 (ADC) SPI drivers.                 *)
(*                                                                         *)
(* Both drivers are command encoders: every method builds a command word   *)
(* or a command byte plus payload and writes it to its SPI device.  The    *)
(* state of the model is the most recent driver call: its name and         *)
(* arguments, the SPI transfers it has performed so far, the values it     *)
(* built, and how it ended (returned, or raised which exception).  A call  *)
(* that releases the SPI device before it returns takes one step per bus   *)
(* acquisition or wait: the ADC's reset (write, then a 10 ms sleep), its   *)
(* initialize (two register writes) and its wait_for_data_ready, whose     *)
(* loop runs against a monotonic clock.                                    *)
(***************************************************************************)
EXTENDS Integers, Sequences, FiniteSets, TLC

VARIABLES
    call,       \* the call in hand: a record with field op and the arguments
    outcome,    \* "none" (no call) | "running" | "ok" | the exception raised
    result,     \* value the call returned (None when it returns nothing)
    bus,        \* SPI transfers the call has performed, in order
    built,      \* command word / configuration value the call built (None if none)
    pc,         \* position inside a call of several steps ("idle" outside one)
    now,        \* time.monotonic(), in ms since the call in hand was entered
    start,      \* wait_for_data_ready's local `start`
    rdy_stuck   \* during this wait the ADC never clears the RDY bit of its status

vars == <<call, outcome, result, bus, built, pc, now, start, rdy_stuck>>


(***************************************************************************)
(* Bounds of the model.                                                    *)
(***************************************************************************)
MinChannelArg == 2      \* DAC channel arguments range over -MinChannelArg .. MaxChannelArg
MaxChannelArg == 17
MaxDataArg == 4097      \* DAC data arguments range over -1 .. MaxDataArg (12 bits and beyond)
MaxAdcChannel == 9      \* ADC channel numbers in a channels list range over 0 .. MaxAdcChannel
MaxChannelsLen == 2     \* length of the channels lists given to configure_adc
MaxConfigBits == 13     \* configuration register reads range over MaxConfigBits-bit values
MaxStatusChannel == 1   \* channel nibble of the status bytes the ADC returns
MaxTimeout == 2         \* timeout argument of wait_for_data_ready, in ms
MaxJitter == 1          \* extra clock advance between two statements, in ms
MaxRegisterArg == 8     \* register arguments of direct write_register / read_register calls
MaxReadLength == 3      \* length argument of direct read_register calls

(***************************************************************************)
(* Python integers and bytes.                                              *)
(***************************************************************************)
RECURSIVE Pow2(_)
Pow2(n) == IF n <= 0 THEN 1 ELSE 2 * Pow2(n - 1)

\* a << n for n >= 0 (Python raises ValueError for n < 0; callers guard that)
Shl(a, n) == a * Pow2(n)

\* a | b on Python's unbounded two's-complement integers
RECURSIVE BitOr(_, _)
BitOr(a, b) ==
    IF a = 0 THEN b
    ELSE IF b = 0 THEN a
    ELSE IF a = -1 \/ b = -1 THEN -1
    ELSE (IF a % 2 = 1 \/ b % 2 = 1 THEN 1 ELSE 0) + 2 * BitOr(a \div 2, b \div 2)

\* a & b on Python's unbounded two's-complement integers
RECURSIVE BitAnd(_, _)
BitAnd(a, b) ==
    IF a = 0 \/ b = 0 THEN 0
    ELSE IF a = -1 THEN b
    ELSE IF b = -1 THEN a
    ELSE (IF a % 2 = 1 /\ b % 2 = 1 THEN 1 ELSE 0) + 2 * BitAnd(a \div 2, b \div 2)

\* bits hi..lo of a non-negative word
Field(word, hi, lo) == (word \div Pow2(lo)) % Pow2(hi - lo + 1)

\* value.to_bytes(length, 'big') raises OverflowError unless 0 <= value < 256^length
RECURSIVE ShiftRightBytes(_, _)
ShiftRightBytes(value, k) == IF k = 0 THEN value ELSE ShiftRightBytes(value \div 256, k - 1)

FitsBytes(value, length) == value >= 0 /\ ShiftRightBytes(value, length) = 0

ToBytes(value, length) ==
    [i \in 1..length |-> ShiftRightBytes(value, length - i) % 256]

\* int.from_bytes(buffer, 'big')
RECURSIVE FromBytes(_)
FromBytes(buffer) ==
    IF Len(buffer) = 0 THEN 0
    ELSE 256 * FromBytes(SubSeq(buffer, 1, Len(buffer) - 1)) + buffer[Len(buffer)]

\* Python values, tagged with their type
None == [type |-> "NoneType"]
PyInt(n) == [type |-> "int", int |-> n]
PyBool(b) == [type |-> "bool", bool |-> b]
PyStr(s) == [type |-> "str", str |-> s]
PyList(l) == [type |-> "list", list |-> l]
PyBytes(b) == [type |-> "bytes", bytes |-> b]

\* one device.write(buffer) / device.readinto(buffer) on the SPI device
Write(buffer) == [kind |-> "write", data |-> buffer]
Read(buffer) == [kind |-> "read", data |-> buffer]

\* what a straight-line call leaves behind
Done(o, r, b, v) == [outcome |-> o, result |-> r, bus |-> b, built |-> v]

(***************************************************************************)
(* AD5628 (DAC): constants.                                                *)
(***************************************************************************)
MAX_CHANNELS == 8
CMD_WRITE_INPUT_REGISTER == 0
CMD_UPDATE_DAC == 1
CMD_WRITE_INPUT_UPDATE_ALL == 2
CMD_WRITE_AND_UPDATE_DAC == 3
CMD_POWER_DOWN == 4
CMD_LOAD_CLEAR_CODE == 5
CMD_LOAD_LDAC == 6
CMD_RESET == 7
DAC_ALL_CHANNELS == 15

InvalidChannelError == "ValueError: Invalid channel"
InvalidClearCodeError == "ValueError: Invalid clear code, must be 0 (zero), midscale, or fullscale"
NegativeShiftError == "ValueError: negative shift count"

(***************************************************************************)
(* AD5628 (DAC): methods, as functions from arguments to what the call     *)
(* does.                                                                   *)
(***************************************************************************)
\* send_data: value.to_bytes(4, 'big'), then one device.write(buffer)
send_data(value) ==
    IF FitsBytes(value, 4)
    THEN Done("ok", None, <<Write(ToBytes(value, 4))>>, PyInt(value))
    ELSE Done("OverflowError", None, <<>>, PyInt(value))

\* the guard shared by update_dac, write_update_dac and load_ldac
ChannelRejected(channel) == channel >= MAX_CHANNELS /\ channel # DAC_ALL_CHANNELS

\* (opcode << 24) | (channel << 20) | (data << 8); data << 8 raises for no data
ChannelDataCommand(opcode, channel, data) ==
    BitOr(BitOr(Shl(opcode, 24), Shl(channel, 20)), Shl(data, 8))

WriteRegisterCommand(channel, data) ==
    BitOr(BitOr(Shl(CMD_WRITE_INPUT_REGISTER, 24), Shl(channel, 20)),
          BitAnd(data, 1048575))

dac_write_register(channel, data) == send_data(WriteRegisterCommand(channel, data))

\* variant of update_dac's command with the opcode at bit 28 and the channel at bit 24
UpdateDacCommandTopNibble(channel, data) ==
    BitOr(BitOr(Shl(CMD_UPDATE_DAC, 28), Shl(channel, 24)), Shl(data, 8))

UpdateDacCommand(channel, data) == ChannelDataCommand(CMD_UPDATE_DAC, channel, data)

update_dac(channel, data) ==
    IF ChannelRejected(channel)
    THEN Done(InvalidChannelError, None, <<>>, None)
    ELSE send_data(UpdateDacCommand(channel, data))

WriteUpdateDacCommand(channel, data) ==
    ChannelDataCommand(CMD_WRITE_AND_UPDATE_DAC, channel, data)

write_update_dac(channel, data) ==
    IF ChannelRejected(channel)
    THEN Done(InvalidChannelError, None, <<>>, None)
    ELSE send_data(WriteUpdateDacCommand(channel, data))

tester == send_data(BitOr(BitOr(Shl(3, 24), Shl(0, 20)), Shl(4095, 8)))

power_down == send_data(Shl(CMD_POWER_DOWN, 24))

\* variant of the clear-code test that accepts any 20-bit code
ClearCodeInRange(code) == 0 <= code /\ code <= 1048575

ClearCodeAccepted(code) == code \in {0, 524288, 1048575}

ClearCodeCommand(code) == BitOr(Shl(CMD_LOAD_CLEAR_CODE, 24), BitAnd(code, 1048575))

load_clear_code(code) ==
    IF ~ClearCodeAccepted(code)
    THEN Done(InvalidClearCodeError, None, <<>>, None)
    ELSE send_data(ClearCodeCommand(code))

\* 0x01 << channel raises ValueError("negative shift count") for channel < 0
load_ldac(channel) ==
    IF ChannelRejected(channel)
    THEN Done(InvalidChannelError, None, <<>>, None)
    ELSE IF channel < 0
    THEN Done(NegativeShiftError, None, <<>>, None)
    ELSE send_data(BitOr(Shl(CMD_LOAD_LDAC, 24),
                         Shl(BitAnd(Shl(1, channel), 255), 8)))

update_ldac(channel, data) ==
    send_data(ChannelDataCommand(CMD_WRITE_INPUT_UPDATE_ALL, channel, data))

dac_reset == send_data(Shl(CMD_RESET, 24))

internal_ref_mode == send_data(BitOr(Shl(8, 24), Shl(1, 8)))

(***************************************************************************)
(* AD7193 (ADC): constants.                                                *)
(***************************************************************************)
STATUS_REGISTER == 0
MODE_REGISTER == 1
CONFIGURATION_REGISTER == 2
DATA_REGISTER == 3
ID_REGISTER == 4

InvalidModeError == "ValueError: Invalid mode. Choose 'pseudo-differential' or 'differential'."
InvalidPolarityError == "ValueError: Invalid polarity. Choose 'unipolar' or 'bipolar'."
InvalidGainError == "ValueError: Invalid gain. Choose from 1, 8, 16, 32, 64, 128."
InvalidPseudoChannelError == "ValueError: Invalid channel for pseudo-differential. Choose 1-8."
InvalidDiffChannelError == "ValueError: Invalid channel for differential. Choose 1-4."

(***************************************************************************)
(* AD7193 (ADC): methods.                                                  *)
(***************************************************************************)
\* write_register: bytes([command]) + value raises TypeError unless value is bytes
adc_write_register(register, value) ==
    LET command == BitAnd(Shl(register, 3), 248)
    IN  IF value.type = "bytes"
        THEN Done("ok", None, <<Write(<<command>> \o value.bytes)>>, None)
        ELSE Done("TypeError", None, <<>>, None)

\* read_register: the command byte is written, then `buffer` is what readinto delivers
read_register(register, buffer) ==
    LET command == BitAnd(BitOr(Shl(register, 3), 64), 255)
    IN  Done("ok", PyBytes(buffer), <<Write(<<command>>), Read(buffer)>>, None)

\* reset, up to the end of its `with` block: 40 consecutive 1 bits are written
reset_command == <<Write(<<255, 255, 255, 255, 255>>)>>

read_device_id(buffer) ==
    LET r == read_register(ID_REGISTER, buffer)
    IN  Done("ok", PyInt(FromBytes(r.result.bytes)), r.bus, None)

\* initialize, first statement pair: the mode register write
initialize_mode ==
    LET mode_value == 524384
    IN  adc_write_register(MODE_REGISTER, PyBytes(ToBytes(mode_value, 3)))

\* initialize, second statement pair: the configuration register write
initialize_config ==
    LET config_value == 279
    IN  adc_write_register(CONFIGURATION_REGISTER, PyBytes(ToBytes(config_value, 3)))

read_data(buffer) ==
    LET r == read_register(DATA_REGISTER, buffer)
    IN  Done("ok", PyInt(FromBytes(r.result.bytes)), r.bus, None)

\* not (status & 0x80)
StatusReady(status) == BitAnd(status, 128) = 0

data_ready(buffer) ==
    LET r == read_register(STATUS_REGISTER, buffer)
    IN  Done("ok", PyBool(StatusReady(r.result.bytes[1])), r.bus, None)

\* variant of the expiry test that fires once the timeout is reached, not exceeded
TimedOutAtDeadline(clock, started, timeout) == (clock - started) >= timeout

\* (time.monotonic() - start) > timeout
TimedOut(clock, started, timeout) == (clock - started) > timeout

get_active_channel(buffer) ==
    LET r == read_register(STATUS_REGISTER, buffer)
    IN  Done("ok", PyInt(BitAnd(r.result.bytes[1], 15)), r.bus, None)

\* the channels 0..7 whose bit is set, in increasing order
RECURSIVE ActiveChannelsFrom(_, _)
ActiveChannelsFrom(config, channel) ==
    IF channel >= 8 THEN <<>>
    ELSE (IF BitAnd(config, Shl(1, channel)) # 0 THEN <<channel>> ELSE <<>>)
         \o ActiveChannelsFrom(config, channel + 1)

get_active_channels(buffer) ==
    LET r == read_register(CONFIGURATION_REGISTER, buffer)
    IN  Done("ok", PyList(ActiveChannelsFrom(FromBytes(r.result.bytes), 0)), r.bus, None)

\* 'Pseudo-Differential' if config & (1 << 12) else 'Differential'
DecodeMode(config) ==
    IF BitAnd(config, Shl(1, 12)) # 0 THEN "Pseudo-Differential" ELSE "Differential"

get_mode(buffer) ==
    LET r == read_register(CONFIGURATION_REGISTER, buffer)
    IN  Done("ok", PyStr(DecodeMode(FromBytes(r.result.bytes))), r.bus, None)

gain_map == (1 :> 0) @@ (8 :> 3) @@ (16 :> 4) @@ (32 :> 5) @@ (64 :> 6) @@ (128 :> 7)

\* variant of the gain lookup with the codes numbered consecutively
GainCodeConsecutive(gain) ==
    ((1 :> 0) @@ (8 :> 1) @@ (16 :> 2) @@ (32 :> 3) @@ (64 :> 4) @@ (128 :> 5))[gain]

GainCode(gain) == gain_map[gain]

\* variant of the range test that allows 1..8 in both modes
ChannelInRangeAnyMode(mode, ch) == 1 <= ch /\ ch <= 8

\* the range test of the channel loops: 1 <= ch <= 8, or 1 <= ch <= 4
ChannelInRange(mode, ch) ==
    IF mode = "pseudo-differential" THEN 1 <= ch /\ ch <= 8 ELSE 1 <= ch /\ ch <= 4

\* the channel loop: the mask of the channels up to the first one out of range,
\* and whether the loop raised
RECURSIVE ChannelLoop(_, _, _, _)
ChannelLoop(mode, channels, i, channel_mask) ==
    IF i > Len(channels) THEN [raised |-> FALSE, channel_mask |-> channel_mask]
    ELSE IF ChannelInRange(mode, channels[i])
    THEN ChannelLoop(mode, channels, i + 1,
                     BitOr(channel_mask, Shl(1, channels[i] - 1)))
    ELSE [raised |-> TRUE, channel_mask |-> channel_mask]

UnipolarBit(polarity) == IF polarity = "bipolar" THEN 0 ELSE 1

\* (unipolar_bit << 12) | (gain_map[gain] << 8) | channel_mask
ConfigValue(polarity, gain, channel_mask) ==
    BitOr(BitOr(Shl(UnipolarBit(polarity), 12), Shl(GainCode(gain), 8)), channel_mask)

configure_adc(mode, polarity, channels, gain) ==
    IF mode \notin {"pseudo-differential", "differential"}
    THEN Done(InvalidModeError, None, <<>>, None)
    ELSE IF polarity \notin {"unipolar", "bipolar"}
    THEN Done(InvalidPolarityError, None, <<>>, None)
    ELSE IF gain \notin DOMAIN gain_map
    THEN Done(InvalidGainError, None, <<>>, None)
    ELSE LET loop == ChannelLoop(mode, channels, 1, 0)
         IN  IF loop.raised
             THEN Done(IF mode = "pseudo-differential"
                       THEN InvalidPseudoChannelError
                       ELSE InvalidDiffChannelError, None, <<>>, None)
             ELSE LET config_value == ConfigValue(polarity, gain, loop.channel_mask)
                      w == adc_write_register(CONFIGURATION_REGISTER, PyInt(config_value))
                  IN  Done(w.outcome, None, w.bus, PyInt(config_value))

(***************************************************************************)
(* Arguments the callers pass and bytes the devices return.                *)
(***************************************************************************)
ChannelArgs == (0 - MinChannelArg)..MaxChannelArg
DataArgs == (0 - 1)..MaxDataArg
ClearCodeArgs == {0 - 1, 0, 1, 74565, 524287, 524288, 524289, 1048574, 1048575, 1048576, 1572864}
Modes == {"pseudo-differential", "differential", "single-ended"}
Polarities == {"unipolar", "bipolar", "both"}
Gains == {0, 1, 2, 8, 16, 32, 64, 128}
ChannelLists ==
    UNION {[1..n -> 0..MaxAdcChannel] : n \in 0..MaxChannelsLen} \cup {<<1, 2, 3, 4>>}
Timeouts == 0..MaxTimeout
\* status bytes: RDY at bit 7, the channel nibble at bits 3..0
StatusBytes == {128 * rdy + ch : rdy \in 0..1, ch \in 0..MaxStatusChannel}
ConfigBuffers == {ToBytes(v, 3) : v \in 0..(Pow2(MaxConfigBits) - 1)}
DataBuffers == {ToBytes(v, 3) : v \in {0, 1, 255, 256, 65536, 8388608, 16777215}}
IdBuffers == {<<b>> : b \in {0, 2, 162, 255}}
\* arguments of direct calls of send_data, write_register and read_register
SendDataArgs == {0 - 1, 0, 1, 150994944, 2147483647}
RegisterArgs == 0..MaxRegisterArg
RegisterValues ==
    {PyBytes(b) : b \in {<<>>, <<0>>, <<0, 2, 0>>, <<0, 1, 23>>, <<0, 21, 15>>, <<8, 0, 96>>}}
        \cup {PyInt(n) : n \in {0, 279, 5391}}
ReadLengths == 0..MaxReadLength
\* what the device delivers into a buffer of the given length
DeviceBuffers(length) == {ToBytes(v, length) : v \in {0, 1, 128, 255}}

(***************************************************************************)
(* The state machine.                                                      *)
(***************************************************************************)
NoCall == [op |-> "none"]

Init ==
    /\ call = NoCall
    /\ outcome = "none"
    /\ result = None
    /\ bus = <<>>
    /\ built = None
    /\ pc = "idle"
    /\ now = 0
    /\ start = 0
    /\ rdy_stuck = FALSE

\* no call is in hand: the caller may make its next call
Idle == outcome = "none"

\* a straight-line call c runs from entry to return or raise and leaves d behind
Run(c, d) ==
    /\ call' = c
    /\ outcome' = d.outcome
    /\ result' = d.result
    /\ bus' = d.bus
    /\ built' = d.built
    /\ UNCHANGED <<pc, now, start, rdy_stuck>>

DacWriteRegister ==
    /\ Idle
    /\ \E channel \in ChannelArgs, data \in DataArgs :
        Run([op |-> "dac.write_register", channel |-> channel, data |-> data],
            dac_write_register(channel, data))

UpdateDac ==
    /\ Idle
    /\ \E channel \in ChannelArgs, data \in DataArgs :
        Run([op |-> "update_dac", channel |-> channel, data |-> data],
            update_dac(channel, data))

WriteUpdateDac ==
    /\ Idle
    /\ \E channel \in ChannelArgs, data \in DataArgs :
        Run([op |-> "write_update_dac", channel |-> channel, data |-> data],
            write_update_dac(channel, data))

Tester == Idle /\ Run([op |-> "tester"], tester)

PowerDown == Idle /\ Run([op |-> "power_down"], power_down)

LoadClearCode ==
    /\ Idle
    /\ \E code \in ClearCodeArgs :
        Run([op |-> "load_clear_code", code |-> code], load_clear_code(code))

LoadLdac ==
    /\ Idle
    /\ \E channel \in ChannelArgs :
        Run([op |-> "load_ldac", channel |-> channel], load_ldac(channel))

UpdateLdac ==
    /\ Idle
    /\ \E channel \in ChannelArgs, data \in DataArgs :
        Run([op |-> "update_ldac", channel |-> channel, data |-> data],
            update_ldac(channel, data))

DacReset == Idle /\ Run([op |-> "dac.reset"], dac_reset)

InternalRefMode == Idle /\ Run([op |-> "internal_ref_mode"], internal_ref_mode)

\* direct call of the DAC's send_data
SendData ==
    /\ Idle
    /\ \E value \in SendDataArgs :
        Run([op |-> "send_data", value |-> value], send_data(value))

\* direct call of the ADC's write_register
AdcWriteRegister ==
    /\ Idle
    /\ \E register \in RegisterArgs, value \in RegisterValues :
        Run([op |-> "adc.write_register", register |-> register, reg_value |-> value],
            adc_write_register(register, value))

\* direct call of the ADC's read_register
ReadRegister ==
    /\ Idle
    /\ \E register \in RegisterArgs, length \in ReadLengths :
        \E buffer \in DeviceBuffers(length) :
            Run([op |-> "read_register", register |-> register, length |-> length],
                read_register(register, buffer))

\* reset, first step: the reset command is written and the SPI device released
AdcReset ==
    /\ Idle
    /\ call' = [op |-> "adc.reset"]
    /\ outcome' = "running"
    /\ bus' = reset_command
    /\ pc' = "reset_sleep"
    /\ UNCHANGED <<result, built, now, start, rdy_stuck>>

\* reset, second step: time.sleep(0.01), the print, and the return
AdcResetSettle ==
    /\ pc = "reset_sleep"
    /\ \E d \in 0..MaxJitter : now' = now + 10 + d
    /\ outcome' = "ok"
    /\ pc' = "idle"
    /\ UNCHANGED <<call, result, bus, built, start, rdy_stuck>>

ReadDeviceId ==
    /\ Idle
    /\ \E buffer \in IdBuffers : Run([op |-> "read_device_id"], read_device_id(buffer))

\* initialize, first step: the mode register is written and the SPI device released
Initialize ==
    /\ Idle
    /\ call' = [op |-> "initialize"]
    /\ LET w == initialize_mode
       IN  /\ bus' = w.bus
           /\ IF w.outcome = "ok"
              THEN outcome' = "running" /\ pc' = "init_config"
              ELSE outcome' = w.outcome /\ pc' = pc
    /\ UNCHANGED <<result, built, now, start, rdy_stuck>>

\* initialize, second step: the configuration register is written; the call returns
InitializeConfig ==
    /\ pc = "init_config"
    /\ LET w == initialize_config
       IN  /\ bus' = bus \o w.bus
           /\ outcome' = w.outcome
    /\ pc' = "idle"
    /\ UNCHANGED <<call, result, built, now, start, rdy_stuck>>

ReadData ==
    /\ Idle
    /\ \E buffer \in DataBuffers : Run([op |-> "read_data"], read_data(buffer))

DataReady ==
    /\ Idle
    /\ \E status \in StatusBytes : Run([op |-> "data_ready"], data_ready(<<status>>))

GetActiveChannel ==
    /\ Idle
    /\ \E status \in StatusBytes :
        Run([op |-> "get_active_channel"], get_active_channel(<<status>>))

GetActiveChannels ==
    /\ Idle
    /\ \E buffer \in ConfigBuffers :
        Run([op |-> "get_active_channels"], get_active_channels(buffer))

GetMode ==
    /\ Idle
    /\ \E buffer \in ConfigBuffers : Run([op |-> "get_mode"], get_mode(buffer))

ConfigureAdc ==
    /\ Idle
    /\ \E mode \in Modes, polarity \in Polarities, channels \in ChannelLists, gain \in Gains :
        Run([op |-> "configure_adc", mode |-> mode, polarity |-> polarity,
             channels |-> channels, gain |-> gain],
            configure_adc(mode, polarity, channels, gain))

\* wait_for_data_ready, entry: start = time.monotonic()
WaitCall ==
    /\ Idle
    /\ \E timeout \in Timeouts, stuck \in BOOLEAN, d \in 0..MaxJitter :
        /\ call' = [op |-> "wait_for_data_ready", timeout |-> timeout]
        /\ outcome' = "running"
        /\ rdy_stuck' = stuck
        /\ now' = d
        /\ start' = d
        /\ pc' = "poll"
        /\ UNCHANGED <<result, bus, built>>

\* the loop test: while not self.data_ready()
WaitPoll ==
    /\ pc = "poll"
    /\ \E status \in StatusBytes :
        /\ rdy_stuck => ~StatusReady(status)
        /\ LET r == data_ready(<<status>>)
           IN  /\ bus' = bus \o r.bus
               /\ IF r.result.bool
                  THEN outcome' = "ok" /\ pc' = "idle"
                  ELSE outcome' = outcome /\ pc' = "check"
    /\ UNCHANGED <<call, result, built, now, start, rdy_stuck>>

\* if (time.monotonic() - start) > timeout: raise TimeoutError
WaitCheck ==
    /\ pc = "check"
    /\ \E d \in 0..MaxJitter :
        /\ now' = now + d
        /\ IF TimedOut(now', start, call.timeout)
           THEN outcome' = "TimeoutError" /\ pc' = "idle"
           ELSE outcome' = outcome /\ pc' = "sleep"
    /\ UNCHANGED <<call, result, bus, built, start, rdy_stuck>>

\* time.sleep(0.001): at least 1 ms passes
WaitSleep ==
    /\ pc = "sleep"
    /\ \E d \in 0..MaxJitter : now' = now + 1 + d
    /\ pc' = "poll"
    /\ UNCHANGED <<call, outcome, result, bus, built, start, rdy_stuck>>

\* the caller has the call's result or exception and goes on to its next call
Return ==
    /\ outcome \notin {"none", "running"}
    /\ call' = NoCall
    /\ outcome' = "none"
    /\ result' = None
    /\ bus' = <<>>
    /\ built' = None
    /\ pc' = "idle"
    /\ now' = 0
    /\ start' = 0
    /\ rdy_stuck' = FALSE

Next ==
    \/ DacWriteRegister
    \/ UpdateDac
    \/ WriteUpdateDac
    \/ Tester
    \/ PowerDown
    \/ LoadClearCode
    \/ LoadLdac
    \/ UpdateLdac
    \/ DacReset
    \/ InternalRefMode
    \/ SendData
    \/ AdcWriteRegister
    \/ ReadRegister
    \/ AdcReset
    \/ AdcResetSettle
    \/ ReadDeviceId
    \/ Initialize
    \/ InitializeConfig
    \/ ReadData
    \/ DataReady
    \/ GetActiveChannel
    \/ GetActiveChannels
    \/ GetMode
    \/ ConfigureAdc
    \/ WaitCall
    \/ WaitPoll
    \/ WaitCheck
    \/ WaitSleep
    \/ Return

Spec == Init /\ [][Next]_vars

\* a call that is running keeps running: the interpreter executes the loop's next statement
LiveSpec ==
    /\ Spec
    /\ WF_vars(WaitPoll) /\ WF_vars(WaitCheck) /\ WF_vars(WaitSleep)
    /\ WF_vars(AdcResetSettle) /\ WF_vars(InitializeConfig)

(***************************************************************************)
(* Properties.                                                             *)
(***************************************************************************)
TwelveBitMax == 4095
DacChannels == 0..7 \cup {15}
\* the ADC operations that choose the configuration value they write
ConfigWriters == {"initialize", "configure_adc"}
LegalGainCodes == {0, 3, 4, 5, 6, 7}
LegalGains == {1, 8, 16, 32, 64, 128}

\* the call sent exactly one 4-byte word over SPI
SentOneWord == Len(bus) = 1 /\ bus[1].kind = "write" /\ Len(bus[1].data) = 4
SentWord == FromBytes(bus[1].data)

UpdateCase ==
    /\ call.op \in {"update_dac", "write_update_dac"}
    /\ call.channel \in DacChannels
    /\ call.data \in 0..TwelveBitMax
ExpectedOpcode == IF call.op = "update_dac" THEN 1 ELSE 3

\* C1 as stated: for channels 0..7 and 15 and data of 12 bits or fewer, the word that
\* update_dac / write_update_dac send has its opcode (1 / 3) in bits 31..28 and the
\* channel in bits 27..24.
C1_OpcodeInTopNibble ==
    UpdateCase =>
        /\ outcome = "ok"
        /\ SentOneWord
        /\ Field(SentWord, 31, 28) = ExpectedOpcode
        /\ Field(SentWord, 27, 24) = call.channel

\* C1 amended: for channels 0..7 and 15 and data of 12 bits or fewer, the word that
\* update_dac / write_update_dac send has bits 31..28 zero, its opcode (1 / 3) in
\* bits 27..24 and the channel in bits 23..20.
C1_OpcodeInSecondNibble ==
    UpdateCase =>
        /\ outcome = "ok"
        /\ SentOneWord
        /\ Field(SentWord, 31, 28) = 0
        /\ Field(SentWord, 27, 24) = ExpectedOpcode
        /\ Field(SentWord, 23, 20) = call.channel

C1_Witness ==
    /\ call.op = "write_update_dac"
    /\ call.channel = 15
    /\ call.data = TwelveBitMax
    /\ outcome = "ok"
    /\ SentOneWord
    /\ SentWord = 67108608

ConfigureValidCase ==
    /\ call.op = "configure_adc"
    /\ call.mode \in {"pseudo-differential", "differential"}
    /\ call.polarity \in {"unipolar", "bipolar"}
    /\ call.gain \in LegalGains
    /\ \A i \in 1..Len(call.channels) :
          call.channels[i] \in 1..(IF call.mode = "differential" THEN 4 ELSE 8)

\* C2: configure_adc with valid mode, polarity, gain and channels returns without
\* raising after exactly one SPI write: the write command byte of register 0x02
\* followed by the packed configuration value as big-endian payload bytes.
C2_ConfigureWritesOnce ==
    ConfigureValidCase =>
        /\ outcome = "ok"
        /\ Len(bus) = 1
        /\ bus[1].kind = "write"
        /\ Len(bus[1].data) >= 2
        /\ bus[1].data[1] = 16
        /\ PyInt(FromBytes(Tail(bus[1].data))) = built

TestScriptCase ==
    /\ call.op = "configure_adc"
    /\ call.mode = "pseudo-differential"
    /\ call.polarity = "unipolar"
    /\ call.channels = <<1, 2, 3, 4>>
    /\ call.gain = 32

\* C3 as stated: configure_adc(pseudo-differential, unipolar, [1,2,3,4], gain 32)
\* builds the configuration value 0x1005.
C3_Builds0x1005 == TestScriptCase => built = PyInt(4101)

\* C3 amended: configure_adc(pseudo-differential, unipolar, [1,2,3,4], gain 32)
\* builds the configuration value 0x150F (unipolar bit 12, gain code 101 at bits
\* 10..8, channel mask 0x0F).
C3_Builds0x150F == TestScriptCase => built = PyInt(5391)

C3_Witness == TestScriptCase /\ built = PyInt(5391)

\* C4: update_dac, write_update_dac and load_ldac with a channel outside {0..7, 15}
\* (8..14, 16 or more, negative) raise ValueError "Invalid channel" and send nothing.
C4_BadChannelRejected ==
    (/\ call.op \in {"update_dac", "write_update_dac", "load_ldac"}
     /\ call.channel \notin DacChannels)
    => (outcome = InvalidChannelError /\ bus = <<>>)

ConfigureBadChannelCase ==
    /\ call.op = "configure_adc"
    /\ call.mode \in {"pseudo-differential", "differential"}
    /\ \E i \in 1..Len(call.channels) :
          call.channels[i] \notin 1..(IF call.mode = "differential" THEN 4 ELSE 8)
InvalidAdcChannelRaised ==
    /\ outcome = (IF call.mode = "differential"
                  THEN InvalidDiffChannelError ELSE InvalidPseudoChannelError)
    /\ bus = <<>>

\* C5 as stated: configure_adc raises the invalid-channel error whenever the channels
\* list holds a number outside 1..8 (pseudo-differential) or 1..4 (differential),
\* wherever it sits in the list, and the call has then performed no SPI write.
C5_BadChannelAlwaysInvalidChannel == ConfigureBadChannelCase => InvalidAdcChannelRaised

\* C5 amended: with a valid polarity and a valid gain, configure_adc raises the
\* invalid-channel error whenever the channels list holds a number outside 1..8
\* (pseudo-differential) or 1..4 (differential), wherever it sits in the list; and
\* whatever the polarity and gain, the call has raised and performed no SPI write.
C5_BadChannelInvalidChannel ==
    ConfigureBadChannelCase =>
        /\ outcome \notin {"ok", "running"}
        /\ bus = <<>>
        /\ (call.polarity \in {"unipolar", "bipolar"} /\ call.gain \in LegalGains)
              => InvalidAdcChannelRaised

C5_Witness ==
    /\ call.op = "configure_adc"
    /\ call.mode = "differential"
    /\ call.polarity = "bipolar"
    /\ call.gain = 1
    /\ call.channels = <<1, 5>>
    /\ outcome = InvalidDiffChannelError
    /\ bus = <<>>

StuckWait == call.op = "wait_for_data_ready" /\ rdy_stuck

\* C6: against an ADC whose status register keeps RDY (bit 7) at 1, with the clock
\* advancing, wait_for_data_ready(timeout) never returns normally, raises
\* TimeoutError only when more than timeout has passed since the call was entered,
\* and does eventually raise TimeoutError.
C6_StuckDeviceTimesOut ==
    /\ [](StuckWait => outcome # "ok")
    /\ []((StuckWait /\ outcome = "TimeoutError") => now > call.timeout)
    /\ ((StuckWait /\ outcome = "running") ~> (StuckWait /\ outcome = "TimeoutError"))

C6_Witness ==
    /\ StuckWait
    /\ call.timeout = 2
    /\ outcome = "TimeoutError"
    /\ now = 3
    /\ Len(bus) = 8

\* C7: load_clear_code(code) succeeds exactly for code 0, 0x80000 and 0xFFFFF and
\* then sends the single word (0x05 << 24) | code (0x05080000 for 0x80000); for any
\* other code it raises the invalid-clear-code error and sends nothing.
C7_ClearCode ==
    call.op = "load_clear_code" =>
        IF call.code \in {0, 524288, 1048575}
        THEN /\ outcome = "ok"
             /\ SentOneWord
             /\ SentWord = 5 * 16777216 + call.code
             /\ (call.code = 524288 => SentWord = 84410368)
        ELSE /\ outcome = InvalidClearCodeError
             /\ bus = <<>>

C7_Witness ==
    /\ call.op = "load_clear_code"
    /\ call.code = 524288
    /\ outcome = "ok"
    /\ SentOneWord
    /\ SentWord = 84410368

\* SPI write number i of an ADC call is a write to the configuration register
IsConfigWrite(i) ==
    /\ call.op \in ConfigWriters
    /\ bus[i].kind = "write"
    /\ Len(bus[i].data) >= 2
    /\ bus[i].data[1] = 16
ConfigWritten(i) == FromBytes(Tail(bus[i].data))

\* C8: every value that initialize or configure_adc writes to the ADC configuration
\* register (a direct write_register call passes its caller's bytes on) carries, at bits
\* 10..8, one of the legal gain codes 000, 011, 100, 101, 110, 111; the default that
\* initialize writes carries gain code 000 (gain 1) and unipolar flag 0 (bipolar).
C8_LegalGainCode ==
    \A i \in 1..Len(bus) :
        IsConfigWrite(i) =>
            /\ Field(ConfigWritten(i), 10, 8) \in LegalGainCodes
            /\ call.op = "initialize" =>
                  (Field(ConfigWritten(i), 10, 8) = 0 /\ Field(ConfigWritten(i), 12, 12) = 0)

\* C9: whenever the DAC's write_register sends a word for a non-negative channel, the
\* opcode field of that word is WRITE_INPUT_REGISTER (0).
C9_WriteRegisterOpcode ==
    (call.op = "dac.write_register" /\ call.channel >= 0 /\ SentOneWord)
    => Field(SentWord, 27, 24) = 0

ModeName(mode) ==
    IF mode = "pseudo-differential" THEN "Pseudo-Differential" ELSE "Differential"

\* C10: when the configuration register holds the value configure_adc built for mode
\* m (any valid polarity, gain and channels), get_mode returns m.
C10_ModeRoundTrip ==
    call.op = "get_mode" =>
        \A mode \in {"pseudo-differential", "differential"},
           polarity \in {"unipolar", "bipolar"},
           gain \in LegalGains,
           channels \in ChannelLists :
            ((\A i \in 1..Len(channels) :
                 channels[i] \in 1..(IF mode = "differential" THEN 4 ELSE 8))
             /\ PyInt(FromBytes(bus[2].data)) = configure_adc(mode, polarity, channels, gain).built)
            => result = PyStr(ModeName(mode))

====
